---- MODULE Spec2Model ----
(***************************************************************************)
(* Model of .taskList/window.py: the always-on-top reminder dialog that    *)
(* asks for a task until the external `task` store holds one that is due   *)
(* within 23 hours.                                                        *)
(*                                                                         *)
(* Text (the input field, a command's stdout, an argument) is a sequence   *)
(* of one-character strings, so that strip(), split() and int() are        *)
(* computed character by character as Python computes them.  Time is       *)
(* counted in milliseconds; each timer holds the time left until it is     *)
(* due.  A handler runs to completion before the next event is taken       *)
(* (single UI thread); the blocking subprocess calls inside a handler are  *)
(* part of that handler's step.                                            *)
(***************************************************************************)
EXTENDS Integers, Sequences, FiniteSets, TLC

(* ------------------------------ bounds --------------------------------- *)

\* longest text the user types into the input field
MaxLen == 1

\* longest text submitted when on_submit() is checked on its own
MaxTextLen == 4

\* largest number of qualifying tasks the external store holds
MaxTasks == 1

(* ------------------------- program constants --------------------------- *)

\* check_timer.start(2000)
CheckIntervalMs == 2000

\* top_timer.start(500)
TopIntervalMs == 500

\* QTimer.singleShot(1000, QApplication.quit)
CloseDelayMs == 1000

\* the exit status of sys.exit(0) and of app.exec() after QApplication.quit()
ExitOk == 0

\* exitCode while the process has not exited
NoExit == 0 - 1

\* successAge while no submit has scheduled the close
NoSuccess == 0 - 1

\* time advances in steps of the shortest timer interval
TimeStep == TopIntervalMs

(* ------------------------------ text ----------------------------------- *)

Letters == {"a", "b"}

\* characters str.strip() / str.split() / int() treat as whitespace
Whitespace == {" ", "\t", "\n"}

\* what the user can type into the single-line input field
InputChars == Letters \cup {" "}

Digits == <<"0", "1", "2", "3", "4", "5", "6", "7", "8", "9">>

DigitChars == {Digits[i] : i \in 1..10}

DigitValue(c) == (CHOOSE i \in 1..10 : Digits[i] = c) - 1

TextsOfLen(n) == [1..n -> InputChars]

TextsUpTo(n) == UNION {TextsOfLen(k) : k \in 0..n}

\* every text of at most MaxLen input characters
Texts == TextsUpTo(MaxLen)

IsSpace(c) == c \in Whitespace

RECURSIVE LStrip(_)
LStrip(s) == IF s # <<>> /\ IsSpace(Head(s)) THEN LStrip(Tail(s)) ELSE s

RECURSIVE RStrip(_)
RStrip(s) ==
    IF s # <<>> /\ IsSpace(s[Len(s)]) THEN RStrip(SubSeq(s, 1, Len(s) - 1)) ELSE s

\* str.strip(): leading and trailing whitespace removed
Strip(s) == RStrip(LStrip(s))

\* the first whitespace-free run of s (s does not start with whitespace)
RECURSIVE FirstWord(_)
FirstWord(s) ==
    IF s = <<>> \/ IsSpace(Head(s)) THEN <<>> ELSE <<Head(s)>> \o FirstWord(Tail(s))

\* a plausible slip: str.split(" ") cuts at every single blank, so that
\* two blanks in a row give an empty token
RECURSIVE SplitOnEachBlank(_)
SplitOnEachBlank(s) ==
    IF s = <<>> THEN <<>>
    ELSE LET w == FirstWord(s)
             rest == SubSeq(s, Len(w) + 1, Len(s))
         IN  IF rest = <<>> THEN <<w>>
             ELSE <<w>> \o SplitOnEachBlank(Tail(rest))

\* str.split() without arguments: the maximal whitespace-free runs, in order
RECURSIVE Split(_)
Split(s) ==
    LET t == LStrip(s)
    IN  IF t = <<>> THEN <<>>
        ELSE LET w == FirstWord(t)
             IN  <<w>> \o Split(SubSeq(t, Len(w) + 1, Len(t)))

RECURSIVE DigitsValue(_)
DigitsValue(s) ==
    IF s = <<>> THEN 0
    ELSE 10 * DigitsValue(SubSeq(s, 1, Len(s) - 1)) + DigitValue(s[Len(s)])

\* int(text): whitespace around the number is ignored, one sign is allowed,
\* then decimal digits only; anything else raises ValueError (ok = FALSE)
ParseInt(s) ==
    LET t == Strip(s)
        signed == t # <<>> /\ Head(t) \in {"+", "-"}
        body == IF signed THEN Tail(t) ELSE t
        ok == body # <<>> /\ \A i \in 1..Len(body) : body[i] \in DigitChars
    IN  [ok |-> ok,
         val |-> IF ~ok THEN 0
                 ELSE IF signed /\ Head(t) = "-" THEN 0 - DigitsValue(body)
                 ELSE DigitsValue(body)]

\* the decimal text the store prints for a count
RECURSIVE RenderCount(_)
RenderCount(n) ==
    IF n < 10 THEN <<Digits[n + 1]>>
    ELSE RenderCount(n \div 10) \o <<Digits[(n % 10) + 1]>>

(* ------------------------ the external store --------------------------- *)

W_task == <<"t", "a", "s", "k">>

W_add == <<"a", "d", "d">>

\* ["task", "due.before:now+23h", "status:pending", "-OVERDUE", "count"]
QueryArgv ==
    << W_task,
       <<"d","u","e",".","b","e","f","o","r","e",":","n","o","w","+","2","3","h">>,
       <<"s","t","a","t","u","s",":","p","e","n","d","i","n","g">>,
       <<"-","O","V","E","R","D","U","E">>,
       <<"c","o","u","n","t">> >>

\* ["task", "add"] + task_input.split()
AddArgv(task_input) == <<W_task, W_add>> \o Split(task_input)

\* subprocess.run returned a CompletedProcess
Completed(rc, out, err) ==
    [raised |-> FALSE, exc |-> "", returncode |-> rc, stdout |-> out, stderr |-> err]

\* subprocess.run raised (the command could not be started)
Raised(e) ==
    [raised |-> TRUE, exc |-> e, returncode |-> 0, stdout |-> <<>>, stderr |-> ""]

\* what one run of the count query can give while the store holds c
\* qualifying tasks: the count as text, text that is no number, or no run
QueryOutcomes(c) ==
    { Completed(0, RenderCount(c) \o <<"\n">>, ""),
      Completed(1, <<"e", "r", "r", "\n">>, "config error"),
      Raised("FileNotFoundError") }

\* what one run of `task add ...` can give
AddOutcomes ==
    { Completed(0, <<>>, ""),
      Completed(1, <<>>, "invalid date"),
      Completed(2, <<>>, ""),
      Raised("FileNotFoundError") }

\* one external command run by a handler
Call(argv, result) == [argv |-> argv, result |-> result]

(* --------------------------- the status line --------------------------- *)

\* the label before any message (initUI)
InitialStatus == [text |-> <<"hint: window stays open until a valid task is added">>,
                  style |-> "neutral"]

\* before the window is constructed there is no label
NoStatus == [text |-> <<>>, style |-> "none"]

show_error(msg) == [text |-> <<"[x] ">> \o msg, style |-> "error"]

show_warning(msg) == [text |-> <<"[!] ">> \o msg, style |-> "warning"]

show_success == [text |-> <<"[ok] task added">>, style |-> "success"]

EmptyInputMsg == <<"please enter task content">>

AddFailedMsg(stderr) == <<"add failed: ", stderr>>

ExecErrorMsg(e) == <<"execution error: ", e>>

NotUrgentMsg == <<"task added, but not due within the next 23 hours">>

(* ------------------------------ geometry ------------------------------- *)

\* availableGeometry() of the primary screen: width, height
Screen == <<10, 10>>

\* the window is 70% of the screen and centred
CentredPos ==
    LET width == (Screen[1] * 7) \div 10
        height == (Screen[2] * 7) \div 10
    IN  <<(Screen[1] - width) \div 2, (Screen[2] - height) \div 2>>

\* event.pos() of the mouse presses tried
PressPositions == {<<1, 1>>}

\* event.globalPosition() of the mouse moves tried
GlobalPositions == {<<3, 2>>}

Buttons == {"LeftButton", "RightButton"}

PointMinus(p, q) == <<p[1] - q[1], p[2] - q[2]>>

(* ------------------------------- state --------------------------------- *)

VARIABLES
    pc,            \* "start", "running" (in app.exec()), "quitting", "exited"
    exitCode,      \* the process's exit status, NoExit before it exits
    window,        \* "none", "shown", "closed"
    entry,         \* text of the input field
    status_label,  \* text and style of the status line
    dragging,      \* self.dragging
    offset,        \* self.offset
    pos,           \* the window's position
    check_timer,   \* [active, remaining]: the 2000 ms poll
    top_timer,     \* [active, remaining]: the 500 ms raise
    quitShots,     \* time left of each pending singleShot(1000, quit)
    store,         \* number of qualifying tasks the external store holds
    successAge,    \* observer: time since the first submit that scheduled
                   \* the delayed close, NoSuccess before it
    last           \* the handler that ran last and the commands it ran; the
                   \* handlers that run no command and decide nothing about
                   \* the dialog's life (editing, mouse, raise) are recorded
                   \* alike, as "other"

vars == <<pc, exitCode, window, entry, status_label, dragging, offset, pos,
          check_timer, top_timer, quitShots, store, successAge, last>>

Stopped == [active |-> FALSE, remaining |-> 0]

Started(interval) == [active |-> TRUE, remaining |-> interval]

Ran(handler, calls) == [handler |-> handler, calls |-> calls]

RanOther == Ran("other", <<>>)

Init ==
    /\ pc = "start"
    /\ exitCode = NoExit
    /\ window = "none"
    /\ entry = <<>>
    /\ status_label = NoStatus
    /\ dragging = FALSE
    /\ offset = <<0, 0>>
    /\ pos = <<0, 0>>
    /\ check_timer = Stopped
    /\ top_timer = Stopped
    /\ quitShots = {}
    /\ store \in 0..MaxTasks
    /\ successAge = NoSuccess
    /\ last = Ran("none", <<>>)

(* -------------------------- the count query ---------------------------- *)

\* a plausible slip: the except branch answers True
has_valid_tasks_FailTrue(q) ==
    IF q.raised THEN TRUE
    ELSE LET n == ParseInt(Strip(q.stdout))
         IN  IF ~n.ok THEN TRUE ELSE n.val > 0

\* a plausible slip: only a command that cannot run counts as no task, and
\* output that is no number counts as a task
has_valid_tasks_UnparsedIsTrue(q) ==
    IF q.raised THEN FALSE
    ELSE LET n == ParseInt(Strip(q.stdout))
         IN  IF ~n.ok THEN TRUE ELSE n.val > 0

\* has_valid_tasks(): int(result.stdout.strip()) > 0, and False on any
\* exception (the command could not run, the output is no number)
has_valid_tasks(q) ==
    IF q.raised THEN FALSE
    ELSE LET n == ParseInt(Strip(q.stdout))
         IN  IF ~n.ok THEN FALSE ELSE n.val > 0

\* what the try block of main() raises on query result q: the exception of
\* subprocess.run, the ValueError of int(), or the SystemExit of sys.exit(0)
StartupRaises(q) ==
    IF q.raised THEN q.exc
    ELSE LET n == ParseInt(Strip(q.stdout))
         IN  IF ~n.ok THEN "ValueError"
             ELSE IF n.val > 0 THEN "SystemExit"
             ELSE "none"

\* the bare `except:` of main() catches every exception, SystemExit included
BareExceptCatches(e) == e # "none"

(* ------------------------------ startup -------------------------------- *)

\* TaskDialog.__init__ and dialog.show(), then app.exec()
ShowDialog ==
    /\ pc' = "running"
    /\ window' = "shown"
    /\ entry' = <<>>
    /\ status_label' = InitialStatus
    /\ dragging' = FALSE
    /\ offset' = <<0, 0>>
    /\ pos' = CentredPos
    /\ check_timer' = Started(CheckIntervalMs)
    /\ top_timer' = Started(TopIntervalMs)
    /\ UNCHANGED <<exitCode, quitShots, successAge>>

\* an uncaught SystemExit(0) ends the process before any window exists
ExitAtStartup ==
    /\ pc' = "exited"
    /\ exitCode' = ExitOk
    /\ UNCHANGED <<window, entry, status_label, dragging, offset, pos,
                   check_timer, top_timer, quitShots, successAge>>

\* a plausible slip: a query that fails leaves no window
MainFailClosed ==
    /\ pc = "start"
    /\ \E q \in QueryOutcomes(store) :
          /\ last' = Ran("main", <<Call(QueryArgv, q)>>)
          /\ IF StartupRaises(q) = "none" THEN ShowDialog ELSE ExitAtStartup
    /\ UNCHANGED store

\* main(): the startup query, then the dialog
Main ==
    /\ pc = "start"
    /\ \E q \in QueryOutcomes(store) :
          /\ last' = Ran("main", <<Call(QueryArgv, q)>>)
          /\ LET e == StartupRaises(q)
             IN  IF e # "none" /\ ~BareExceptCatches(e)
                 THEN ExitAtStartup
                 ELSE ShowDialog
    /\ UNCHANGED store

(* ------------------------------ the form ------------------------------- *)

\* the dialog takes events: app.exec() is running and no quit was asked for
Running == pc = "running"

\* the user edits the input field
TypeText ==
    /\ Running
    /\ window = "shown"
    /\ \E t \in Texts \ {entry} : entry' = t
    /\ last' = RanOther
    /\ UNCHANGED <<pc, exitCode, window, status_label, dragging, offset, pos,
                   check_timer, top_timer, quitShots, store, successAge>>

\* what on_submit() leaves alone on every path
SubmitFrame ==
    UNCHANGED <<pc, exitCode, window, dragging, offset, pos, check_timer, top_timer>>

\* a plausible slip: no check for blank input, `task add` runs without tokens
OnSubmitEmptyRunsAdd ==
    /\ Running
    /\ window = "shown"
    /\ Strip(entry) = <<>>
    /\ \E a \in AddOutcomes :
          /\ ~a.raised
          /\ a.returncode # 0
          /\ status_label' = show_error(AddFailedMsg(a.stderr))
          /\ last' = Ran("on_submit", <<Call(AddArgv(Strip(entry)), a)>>)
    /\ SubmitFrame
    /\ UNCHANGED <<entry, quitShots, store, successAge>>

\* on_submit(), blank input: the error message and nothing else
OnSubmitEmpty ==
    /\ Running
    /\ window = "shown"
    /\ Strip(entry) = <<>>
    /\ status_label' = show_error(EmptyInputMsg)
    /\ last' = Ran("on_submit", <<>>)
    /\ SubmitFrame
    /\ UNCHANGED <<entry, quitShots, store, successAge>>

\* a plausible slip: a failed add gives up and quits the application
OnSubmitAddFailedQuits ==
    /\ Running
    /\ window = "shown"
    /\ Strip(entry) # <<>>
    /\ \E a \in AddOutcomes :
          /\ ~a.raised
          /\ a.returncode # 0
          /\ status_label' = show_error(AddFailedMsg(a.stderr))
          /\ last' = Ran("on_submit", <<Call(AddArgv(Strip(entry)), a)>>)
    /\ check_timer' = Stopped
    /\ top_timer' = Stopped
    /\ window' = "closed"
    /\ pc' = "quitting"
    /\ UNCHANGED <<exitCode, dragging, offset, pos, entry, quitShots, store,
                   successAge>>

\* a plausible slip: the input field is cleared on a failed add as well
OnSubmitAddFailedClearsInput ==
    /\ Running
    /\ window = "shown"
    /\ Strip(entry) # <<>>
    /\ \E a \in AddOutcomes :
          /\ ~a.raised
          /\ a.returncode # 0
          /\ status_label' = show_error(AddFailedMsg(a.stderr))
          /\ last' = Ran("on_submit", <<Call(AddArgv(Strip(entry)), a)>>)
    /\ entry' = <<>>
    /\ SubmitFrame
    /\ UNCHANGED <<quitShots, store, successAge>>

\* on_submit(), `task add` returned a non-zero exit status
OnSubmitAddFailed ==
    /\ Running
    /\ window = "shown"
    /\ Strip(entry) # <<>>
    /\ \E a \in AddOutcomes :
          /\ ~a.raised
          /\ a.returncode # 0
          /\ status_label' = show_error(AddFailedMsg(a.stderr))
          /\ last' = Ran("on_submit", <<Call(AddArgv(Strip(entry)), a)>>)
    /\ SubmitFrame
    /\ UNCHANGED <<entry, quitShots, store, successAge>>

\* a plausible slip: the handler catches nothing, so the exception leaves the
\* slot and the process aborts
OnSubmitAddRaisedAborts ==
    /\ Running
    /\ window = "shown"
    /\ Strip(entry) # <<>>
    /\ \E a \in AddOutcomes :
          /\ a.raised
          /\ last' = Ran("on_submit", <<Call(AddArgv(Strip(entry)), a)>>)
    /\ pc' = "exited"
    /\ exitCode' = ExitOk + 1
    /\ UNCHANGED <<window, entry, status_label, dragging, offset, pos,
                   check_timer, top_timer, quitShots, store, successAge>>

\* on_submit(), subprocess.run raised for `task add`
OnSubmitAddRaised ==
    /\ Running
    /\ window = "shown"
    /\ Strip(entry) # <<>>
    /\ \E a \in AddOutcomes :
          /\ a.raised
          /\ status_label' = show_error(ExecErrorMsg(a.exc))
          /\ last' = Ran("on_submit", <<Call(AddArgv(Strip(entry)), a)>>)
    /\ SubmitFrame
    /\ UNCHANGED <<entry, quitShots, store, successAge>>

\* a plausible slip: a successful submit stops both timers while the delayed
\* close is pending
OnSubmitSuccessStopsTimers ==
    /\ Running
    /\ window = "shown"
    /\ Strip(entry) # <<>>
    /\ \E a \in AddOutcomes, c \in 0..MaxTasks :
          /\ ~a.raised
          /\ a.returncode = 0
          /\ \E q \in QueryOutcomes(c) :
                /\ has_valid_tasks(q)
                /\ store' = c
                /\ last' = Ran("on_submit", <<Call(AddArgv(Strip(entry)), a),
                                              Call(QueryArgv, q)>>)
    /\ status_label' = show_success
    /\ quitShots' = quitShots \cup {CloseDelayMs}
    /\ successAge' = IF successAge = NoSuccess THEN 0 ELSE successAge
    /\ check_timer' = Stopped
    /\ top_timer' = Stopped
    /\ UNCHANGED <<pc, exitCode, window, dragging, offset, pos, entry>>

\* a plausible slip: one restartable timer holds the delayed close, so that
\* a second success starts the delay again
OnSubmitSuccessRestartsClose ==
    /\ Running
    /\ window = "shown"
    /\ Strip(entry) # <<>>
    /\ \E a \in AddOutcomes, c \in 0..MaxTasks :
          /\ ~a.raised
          /\ a.returncode = 0
          /\ \E q \in QueryOutcomes(c) :
                /\ has_valid_tasks(q)
                /\ store' = c
                /\ last' = Ran("on_submit", <<Call(AddArgv(Strip(entry)), a),
                                              Call(QueryArgv, q)>>)
    /\ status_label' = show_success
    /\ quitShots' = {CloseDelayMs}
    /\ successAge' = IF successAge = NoSuccess THEN 0 ELSE successAge
    /\ SubmitFrame
    /\ UNCHANGED entry

\* on_submit(), `task add` returned 0 and has_valid_tasks() is true: the
\* success message and QTimer.singleShot(1000, QApplication.quit).  The store
\* is outside the program: the query sees whatever it holds by then.
OnSubmitSuccess ==
    /\ Running
    /\ window = "shown"
    /\ Strip(entry) # <<>>
    /\ \E a \in AddOutcomes, c \in 0..MaxTasks :
          /\ ~a.raised
          /\ a.returncode = 0
          /\ \E q \in QueryOutcomes(c) :
                /\ has_valid_tasks(q)
                /\ store' = c
                /\ last' = Ran("on_submit", <<Call(AddArgv(Strip(entry)), a),
                                              Call(QueryArgv, q)>>)
    /\ status_label' = show_success
    /\ quitShots' = quitShots \cup {CloseDelayMs}
    /\ successAge' = IF successAge = NoSuccess THEN 0 ELSE successAge
    /\ SubmitFrame
    /\ UNCHANGED entry

\* a plausible slip: the input field is not cleared after the warning
OnSubmitWarningKeepsInput ==
    /\ Running
    /\ window = "shown"
    /\ Strip(entry) # <<>>
    /\ \E a \in AddOutcomes, c \in 0..MaxTasks :
          /\ ~a.raised
          /\ a.returncode = 0
          /\ \E q \in QueryOutcomes(c) :
                /\ ~has_valid_tasks(q)
                /\ store' = c
                /\ last' = Ran("on_submit", <<Call(AddArgv(Strip(entry)), a),
                                              Call(QueryArgv, q)>>)
    /\ status_label' = show_warning(NotUrgentMsg)
    /\ SubmitFrame
    /\ UNCHANGED <<entry, quitShots, successAge>>

\* on_submit(), `task add` returned 0 and has_valid_tasks() is false: the
\* warning, and the input field is cleared
OnSubmitWarning ==
    /\ Running
    /\ window = "shown"
    /\ Strip(entry) # <<>>
    /\ \E a \in AddOutcomes, c \in 0..MaxTasks :
          /\ ~a.raised
          /\ a.returncode = 0
          /\ \E q \in QueryOutcomes(c) :
                /\ ~has_valid_tasks(q)
                /\ store' = c
                /\ last' = Ran("on_submit", <<Call(AddArgv(Strip(entry)), a),
                                              Call(QueryArgv, q)>>)
    /\ status_label' = show_warning(NotUrgentMsg)
    /\ entry' = <<>>
    /\ SubmitFrame
    /\ UNCHANGED <<quitShots, successAge>>

\* on_submit(): return pressed in the input field, or the button clicked
OnSubmit ==
    \/ OnSubmitEmpty
    \/ OnSubmitAddFailed
    \/ OnSubmitAddRaised
    \/ OnSubmitSuccess
    \/ OnSubmitWarning

(* ------------------------------ timers --------------------------------- *)

Due(t) == t.active /\ t.remaining = 0

\* a plausible slip: the poll stops both timers and omits the quit
CheckTasksExternalStopsWithoutQuit ==
    /\ Running
    /\ Due(check_timer)
    /\ \E q \in QueryOutcomes(store) :
          /\ last' = Ran("check_tasks_external", <<Call(QueryArgv, q)>>)
          /\ IF has_valid_tasks(q)
             THEN /\ check_timer' = Stopped
                  /\ top_timer' = Stopped
             ELSE /\ check_timer' = Started(CheckIntervalMs)
                  /\ UNCHANGED top_timer
    /\ UNCHANGED <<pc, exitCode, window, entry, status_label, dragging, offset,
                   pos, quitShots, store, successAge>>

\* a plausible slip: the poll timer is single-shot, so a poll that sees no
\* task is the last one
CheckTasksExternalPollsOnce ==
    /\ Running
    /\ Due(check_timer)
    /\ \E q \in QueryOutcomes(store) :
          /\ last' = Ran("check_tasks_external", <<Call(QueryArgv, q)>>)
          /\ IF has_valid_tasks(q)
             THEN /\ check_timer' = Stopped
                  /\ top_timer' = Stopped
                  /\ pc' = "quitting"
                  /\ window' = "closed"
             ELSE /\ check_timer' = Stopped
                  /\ UNCHANGED <<top_timer, pc, window>>
    /\ UNCHANGED <<exitCode, entry, status_label, dragging, offset, pos,
                   quitShots, store, successAge>>

\* check_tasks_external(): the 2000 ms poll.  QApplication.quit() asks the
\* application to quit: the shown window is closed first, so its closeEvent()
\* runs (both timers stopped again, the close accepted) before the loop ends.
CheckTasksExternal ==
    /\ Running
    /\ Due(check_timer)
    /\ \E q \in QueryOutcomes(store) :
          /\ last' = Ran("check_tasks_external", <<Call(QueryArgv, q)>>)
          /\ IF has_valid_tasks(q)
             THEN /\ check_timer' = Stopped
                  /\ top_timer' = Stopped
                  /\ pc' = "quitting"
                  /\ window' = "closed"
             ELSE /\ check_timer' = Started(CheckIntervalMs)
                  /\ UNCHANGED <<top_timer, pc, window>>
    /\ UNCHANGED <<exitCode, entry, status_label, dragging, offset, pos,
                   quitShots, store, successAge>>

\* ensure_on_top(): the 500 ms raise_() and activateWindow()
EnsureOnTop ==
    /\ Running
    /\ Due(top_timer)
    /\ top_timer' = Started(TopIntervalMs)
    /\ last' = RanOther
    /\ UNCHANGED <<pc, exitCode, window, entry, status_label, dragging, offset,
                   pos, check_timer, quitShots, store, successAge>>

\* a plausible slip: the one-shot ends the event loop directly (as
\* QApplication.exit(0) would), so no close event reaches the window
SingleShotQuitEndsLoopOnly ==
    /\ Running
    /\ 0 \in quitShots
    /\ quitShots' = quitShots \ {0}
    /\ pc' = "quitting"
    /\ last' = Ran("single_shot_quit", <<>>)
    /\ UNCHANGED <<exitCode, window, entry, status_label, dragging, offset, pos,
                   check_timer, top_timer, store, successAge>>

\* the one-shot of a successful submit fires: QApplication.quit().  The quit
\* request closes the shown window first, so closeEvent() runs: it stops both
\* timers, asks to quit again and accepts the close; then the loop ends.
SingleShotQuit ==
    /\ Running
    /\ 0 \in quitShots
    /\ quitShots' = quitShots \ {0}
    /\ check_timer' = Stopped
    /\ top_timer' = Stopped
    /\ window' = "closed"
    /\ pc' = "quitting"
    /\ last' = Ran("single_shot_quit", <<>>)
    /\ UNCHANGED <<exitCode, entry, status_label, dragging, offset, pos,
                   store, successAge>>

Elapse(t) == IF t.active THEN [t EXCEPT !.remaining = @ - TimeStep] ELSE t

\* time passes while no timer is due
Tick ==
    /\ Running
    /\ ~Due(check_timer)
    /\ ~Due(top_timer)
    /\ 0 \notin quitShots
    /\ check_timer' = Elapse(check_timer)
    /\ top_timer' = Elapse(top_timer)
    /\ quitShots' = {r - TimeStep : r \in quitShots}
    /\ successAge' = IF successAge = NoSuccess \/ successAge > CloseDelayMs
                     THEN successAge
                     ELSE successAge + TimeStep
    /\ UNCHANGED <<pc, exitCode, window, entry, status_label, dragging, offset,
                   pos, store, last>>

(* --------------------------- close and exit ---------------------------- *)

\* a plausible slip: the window is hidden and the application keeps running
CloseEventHidesOnly ==
    /\ Running
    /\ window = "shown"
    /\ check_timer' = Stopped
    /\ top_timer' = Stopped
    /\ window' = "closed"
    /\ last' = Ran("closeEvent", <<>>)
    /\ UNCHANGED <<pc, exitCode, entry, status_label, dragging, offset, pos,
                   quitShots, store, successAge>>

\* closeEvent(): a close request on the window
CloseEvent ==
    /\ Running
    /\ window = "shown"
    /\ check_timer' = Stopped
    /\ top_timer' = Stopped
    /\ pc' = "quitting"
    /\ window' = "closed"
    /\ last' = Ran("closeEvent", <<>>)
    /\ UNCHANGED <<exitCode, entry, status_label, dragging, offset, pos,
                   quitShots, store, successAge>>

\* a plausible slip: the exit status reports an error that was shown
AppExitReportsShownError ==
    /\ pc = "quitting"
    /\ pc' = "exited"
    /\ exitCode' = IF status_label.style = "error" THEN ExitOk + 1 ELSE ExitOk
    /\ UNCHANGED <<window, entry, status_label, dragging, offset, pos,
                   check_timer, top_timer, quitShots, store, successAge, last>>

\* sys.exit(app.exec()): the event loop returns after QApplication.quit()
AppExit ==
    /\ pc = "quitting"
    /\ pc' = "exited"
    /\ exitCode' = ExitOk
    /\ UNCHANGED <<window, entry, status_label, dragging, offset, pos,
                   check_timer, top_timer, quitShots, store, successAge, last>>

(* ------------------------------- mouse --------------------------------- *)

MouseFrame ==
    UNCHANGED <<pc, exitCode, window, entry, status_label, check_timer,
                top_timer, quitShots, store, successAge>>

\* mousePressEvent(): a press of `button` at point p of the window
mousePressEvent(button, p) ==
    /\ Running
    /\ window = "shown"
    /\ IF button = "LeftButton"
       THEN dragging' = TRUE /\ offset' = p
       ELSE UNCHANGED <<dragging, offset>>
    /\ last' = RanOther
    /\ UNCHANGED pos
    /\ MouseFrame

MousePressEvent ==
    \E button \in Buttons, p \in PressPositions : mousePressEvent(button, p)

\* a plausible slip: the window follows the pointer whether dragged or not
mouseMoveEventAlwaysMoves(g) ==
    /\ Running
    /\ window = "shown"
    /\ pos' = PointMinus(g, offset)
    /\ last' = RanOther
    /\ UNCHANGED <<dragging, offset>>
    /\ MouseFrame

\* mouseMoveEvent(): the pointer moves to the global point g
mouseMoveEvent(g) ==
    /\ Running
    /\ window = "shown"
    /\ pos' = IF dragging THEN PointMinus(g, offset) ELSE pos
    /\ last' = RanOther
    /\ UNCHANGED <<dragging, offset>>
    /\ MouseFrame

MouseMoveEvent == \E g \in GlobalPositions : mouseMoveEvent(g)

\* mouseReleaseEvent(): a release of `button`
mouseReleaseEvent(button) ==
    /\ Running
    /\ window = "shown"
    /\ dragging' = IF button = "LeftButton" THEN FALSE ELSE dragging
    /\ last' = RanOther
    /\ UNCHANGED <<offset, pos>>
    /\ MouseFrame

MouseReleaseEvent == \E button \in Buttons : mouseReleaseEvent(button)

(* --------------------------- the environment --------------------------- *)

\* the store changes through another channel (a task added, done or overdue)
StoreChange ==
    /\ Running
    /\ \E c \in (0..MaxTasks) \ {store} : store' = c
    /\ UNCHANGED <<pc, exitCode, window, entry, status_label, dragging, offset,
                   pos, check_timer, top_timer, quitShots, successAge, last>>

Next ==
    \/ Main
    \/ TypeText
    \/ OnSubmit
    \/ CheckTasksExternal
    \/ EnsureOnTop
    \/ SingleShotQuit
    \/ Tick
    \/ CloseEvent
    \/ AppExit
    \/ MousePressEvent
    \/ MouseMoveEvent
    \/ MouseReleaseEvent
    \/ StoreChange

Spec == Init /\ [][Next]_vars

(* ---------------------- on_submit() on its own ------------------------- *)

\* the dialog as shown, with any text of at most MaxTextLen characters typed
SubmitInit ==
    /\ pc = "running"
    /\ exitCode = NoExit
    /\ window = "shown"
    /\ entry \in TextsUpTo(MaxTextLen)
    /\ status_label = InitialStatus
    /\ dragging = FALSE
    /\ offset = <<0, 0>>
    /\ pos = CentredPos
    /\ check_timer = Started(CheckIntervalMs)
    /\ top_timer = Started(TopIntervalMs)
    /\ quitShots = {}
    /\ store \in 0..MaxTasks
    /\ successAge = NoSuccess
    /\ last = RanOther

SubmitSpec == SubmitInit /\ [][OnSubmit]_vars

(* ------------------------------ claims --------------------------------- *)

\* a text that is empty or holds whitespace only
IsBlank(t) == \A i \in 1..Len(t) : t[i] \in Whitespace

\* a query result that reports a positive count
PositiveCount(q) ==
    /\ ~q.raised
    /\ ParseInt(q.stdout).ok
    /\ ParseInt(q.stdout).val > 0

\* a query result that reports the count 0
ZeroCount(q) ==
    /\ ~q.raised
    /\ ParseInt(q.stdout).ok
    /\ ParseInt(q.stdout).val = 0

\* a query that ran and printed no number
NonNumeric(q) == ~q.raised /\ ~ParseInt(q.stdout).ok

\* the window was shown and the process is terminating or has terminated
Closed == window # "none" /\ pc \in {"quitting", "exited"}

\* the handler that ran last was the poll, and its query reported a task
PollSawTask ==
    /\ last.handler = "check_tasks_external"
    /\ PositiveCount(last.calls[1].result)

\* C1 (as claimed): when the startup query returns a positive integer,
\* main() exits with status 0 and no window is created.
C1_PositiveStartupExitsWithoutWindow ==
    (last.handler = "main" /\ PositiveCount(last.calls[1].result))
        => (pc = "exited" /\ exitCode = ExitOk /\ window = "none")

\* C2: when the startup query returns 0, prints no number or cannot be run,
\* main() creates the window and shows it (and the event loop runs).
C2_UnsatisfiedStartupShowsWindow ==
    (/\ last.handler = "main"
     /\ \/ ZeroCount(last.calls[1].result)
        \/ NonNumeric(last.calls[1].result)
        \/ last.calls[1].result.raised)
        => (window = "shown" /\ pc = "running" /\ exitCode = NoExit)

C2_Witness ==
    /\ last.handler = "main"
    /\ last.calls[1].result.raised
    /\ window = "shown"

\* C3 (as claimed): once shown, the window is closed only if a poll reported
\* a qualifying task or a submit added a task and its query reported one.
C3_ClosedOnlyWhenSatisfied ==
    Closed => (PollSawTask \/ successAge # NoSuccess)

\* C3 (amended): once shown, the window is closed only by a poll whose query
\* reported a qualifying task, by the delayed close of a submit whose add
\* exited 0 and whose query reported one, or by a close request.
C3_ClosedOnlyWhenSatisfiedOrForced ==
    Closed =>
        \/ PollSawTask
        \/ last.handler = "single_shot_quit" /\ successAge # NoSuccess
        \/ last.handler = "closeEvent"

C3_Witness ==
    /\ Closed
    /\ last.handler = "closeEvent"
    /\ successAge = NoSuccess
    /\ status_label = InitialStatus

\* C4: a submit of empty or whitespace-only text sets the EmptyInput error,
\* runs neither the add command nor the query, leaves the input text as it
\* is, schedules no close and leaves the window open with its timers.
C4_BlankSubmitOnlyShowsError ==
    [][(last'.handler = "on_submit" /\ IsBlank(entry) /\ OnSubmit) =>
          /\ status_label'.style = "error"
          /\ status_label'.text = <<"[x] ">> \o EmptyInputMsg
          /\ last'.calls = <<>>
          /\ entry' = entry
          /\ quitShots' = quitShots
          /\ pc' = "running"
          /\ window' = "shown"
          /\ UNCHANGED <<check_timer, top_timer, store>>]_vars

C4_Witness ==
    /\ last = Ran("on_submit", <<>>)
    /\ entry = <<" ">>
    /\ status_label.text = <<"[x] ">> \o EmptyInputMsg
    /\ pc = "running"

\* the handler that ran was on_submit and its add command exited non-zero
AddExitedNonZero(l) ==
    /\ l.handler = "on_submit"
    /\ l.calls # <<>>
    /\ ~l.calls[1].result.raised
    /\ l.calls[1].result.returncode # 0

\* C5: when the add command exits non-zero, the status is the error with the
\* captured stderr text, the input is kept, the window stays open and no
\* query is run; a submit runs the query only after an add that exited 0.
C5_AddFailureKeepsInputAndSkipsQuery ==
    /\ [][(AddExitedNonZero(last') /\ OnSubmit) =>
            /\ status_label'.style = "error"
            /\ status_label'.text[Len(status_label'.text)]
                  = last'.calls[1].result.stderr
            /\ entry' = entry
            /\ Len(last'.calls) = 1
            /\ quitShots' = quitShots
            /\ pc' = "running"
            /\ window' = "shown"]_vars
    /\ [][(last'.handler = "on_submit" /\ Len(last'.calls) > 1 /\ OnSubmit) =>
            /\ Len(last'.calls) = 2
            /\ last'.calls[1].argv[2] = W_add
            /\ ~last'.calls[1].result.raised
            /\ last'.calls[1].result.returncode = 0
            /\ last'.calls[2].argv = QueryArgv]_vars

C5_Witness ==
    /\ AddExitedNonZero(last)
    /\ last.calls[1].result.stderr = "invalid date"
    /\ status_label = show_error(AddFailedMsg("invalid date"))
    /\ entry = <<"b">>
    /\ pc = "running"

\* the handler that ran was on_submit and its add command exited 0
AddExitedZero(l) ==
    /\ l.handler = "on_submit"
    /\ Len(l.calls) = 2
    /\ ~l.calls[1].result.raised
    /\ l.calls[1].result.returncode = 0

\* C6: when the add command exits 0 and the query after it reports a
\* positive count, the status is success and a one-shot close is scheduled;
\* while the process runs, a pending close is neither cancelled nor moved
\* later by any event; the process is not running later than 1000 ms after
\* the first such submit: at that time the close is due, no time passes
\* before it is taken, and taking it ends the event loop.
C6_SuccessSchedulesCloseThatFires ==
    /\ [][(AddExitedZero(last') /\ PositiveCount(last'.calls[2].result) /\ OnSubmit) =>
            /\ status_label'.style = "success"
            /\ CloseDelayMs \in quitShots'
            /\ quitShots \subseteq quitShots'
            /\ successAge' # NoSuccess
            /\ pc' = "running"]_vars
    /\ [][pc' = "running" =>
            \A r \in quitShots : \E r2 \in quitShots' : r2 <= r]_vars
    /\ [](pc = "running" /\ successAge # NoSuccess =>
            /\ successAge <= CloseDelayMs
            /\ (CloseDelayMs - successAge) \in quitShots)
    /\ [](pc = "running" /\ 0 \in quitShots =>
            ENABLED SingleShotQuit /\ ~ENABLED Tick)
    /\ [][SingleShotQuit => pc' = "quitting"]_vars
    /\ [](pc = "quitting" => ENABLED AppExit /\ ~ENABLED Tick)

C6_Witness ==
    /\ pc = "exited"
    /\ last.handler = "single_shot_quit"
    /\ successAge = CloseDelayMs
    /\ status_label.style = "error"
    /\ dragging

\* C7: when the add command exits 0 and the query after it reports 0, the
\* status is the warning, the input field is cleared, the submit schedules
\* no close, both timers keep running and the window stays open.
C7_WarningClearsInputAndStaysOpen ==
    [][(AddExitedZero(last') /\ ZeroCount(last'.calls[2].result) /\ OnSubmit) =>
          /\ status_label'.style = "warning"
          /\ status_label'.text = <<"[!] ">> \o NotUrgentMsg
          /\ entry' = <<>>
          /\ quitShots' = quitShots
          /\ UNCHANGED <<check_timer, top_timer>>
          /\ check_timer'.active
          /\ top_timer'.active
          /\ pc' = "running"
          /\ window' = "shown"]_vars

C7_Witness ==
    /\ AddExitedZero(last)
    /\ ZeroCount(last.calls[2].result)
    /\ status_label.style = "warning"
    /\ entry = <<>>
    /\ quitShots = {}
    /\ pc = "running"

\* C8: a firing of the poll that observes a positive count stops both timers
\* and terminates the process (exit status 0); a firing that observes none
\* leaves both timers running and the window, status and input as they are.
C8_PollClosesOnlyOnPositiveCount ==
    /\ [][(last'.handler = "check_tasks_external" /\ CheckTasksExternal) =>
            IF PositiveCount(last'.calls[1].result)
            THEN /\ ~check_timer'.active
                 /\ ~top_timer'.active
                 /\ pc' = "quitting"
            ELSE /\ check_timer'.active
                 /\ top_timer' = top_timer
                 /\ top_timer.active
                 /\ pc' = "running"
                 /\ UNCHANGED <<window, status_label, entry, quitShots>>]_vars
    /\ [][pc = "quitting" =>
            \/ pc' = "quitting"
            \/ pc' = "exited" /\ exitCode' = ExitOk]_vars
    /\ [](pc = "quitting" => ENABLED AppExit)

C8_Witness ==
    /\ PollSawTask
    /\ pc = "exited"
    /\ ~check_timer.active
    /\ ~top_timer.active
    /\ successAge = NoSuccess

\* C9: a close request is taken in every state of the shown dialog, stops
\* both timers and terminates the process; the window is never closed while
\* the process keeps running.
C9_CloseRequestTerminates ==
    /\ [][CloseEvent =>
            /\ ~check_timer'.active
            /\ ~top_timer'.active
            /\ window' = "closed"
            /\ pc' = "quitting"]_vars
    /\ [](window = "closed" => pc \in {"quitting", "exited"})
    /\ [](pc = "running" /\ window = "shown" => ENABLED CloseEvent)

C9_Witness ==
    /\ last.handler = "closeEvent"
    /\ pc = "exited"
    /\ successAge # NoSuccess
    /\ quitShots # {}
    /\ window = "closed"

\* the characters of t that are no whitespace, in order
NonSpace(t) == SelectSeq(t, LAMBDA c : ~IsSpace(c))

RECURSIVE Flatten(_)
Flatten(ws) == IF ws = <<>> THEN <<>> ELSE Head(ws) \o Flatten(Tail(ws))

\* the number of maximal whitespace-free runs of t
WordCount(t) ==
    Cardinality({i \in 1..Len(t) :
                    ~IsSpace(t[i]) /\ (i = 1 \/ IsSpace(t[i - 1]))})

\* C10: for input that is not blank, the add command is run exactly once,
\* with the arguments task, add and then the whitespace-separated words of
\* the input: in order, unchanged, none empty.
C10_AddArgvIsTheInputTokens ==
    [][(~IsBlank(entry) /\ OnSubmit) =>
          /\ last'.calls # <<>>
          /\ Cardinality({i \in DOMAIN last'.calls :
                             last'.calls[i].argv[2] = W_add}) = 1
          /\ LET argv == last'.calls[1].argv
                 toks == SubSeq(argv, 3, Len(argv))
             IN  /\ argv[1] = W_task
                 /\ argv[2] = W_add
                 /\ \A i \in 1..Len(toks) :
                       toks[i] # <<>> /\ NonSpace(toks[i]) = toks[i]
                 /\ Flatten(toks) = NonSpace(entry)
                 /\ Len(toks) = WordCount(entry)]_vars

C10_Witness ==
    /\ last.handler = "on_submit"
    /\ last.calls # <<>>
    /\ last.calls[1].argv = <<W_task, W_add, <<"b">>, <<"a">>>>
    /\ entry = <<"b", " ", " ", "a">>

\* the handler that ran was on_submit and running its add command raised
AddRaised(l) ==
    /\ l.handler = "on_submit"
    /\ l.calls # <<>>
    /\ l.calls[1].result.raised

\* C11: when running the add command raises, the submit ends as after a
\* non-zero exit: the status is the error, its message carries the text of
\* the exception, the input is kept, the window stays open, no query is run
\* and no close is scheduled.
C11_AddExceptionIsShownLikeAddFailure ==
    [][(AddRaised(last') /\ OnSubmit) =>
          /\ status_label'.style = "error"
          /\ status_label'.text[Len(status_label'.text)]
                = last'.calls[1].result.exc
          /\ entry' = entry
          /\ Len(last'.calls) = 1
          /\ quitShots' = quitShots
          /\ successAge' = successAge
          /\ pc' = "running"
          /\ exitCode' = NoExit
          /\ window' = "shown"]_vars

C11_Witness ==
    /\ AddRaised(last)
    /\ last.calls[1].result.exc = "FileNotFoundError"
    /\ status_label = show_error(ExecErrorMsg("FileNotFoundError"))
    /\ entry = <<"b">>
    /\ pc = "running"
    /\ window = "shown"

\* C12: whenever the process has terminated its exit status is 0, also after
\* a query or an add command failed; before that it has no exit status.
C12_EveryExitHasStatusZero ==
    /\ pc = "exited" => exitCode = ExitOk
    /\ pc # "exited" => exitCode = NoExit

C12_Witness ==
    /\ pc = "exited"
    /\ exitCode = ExitOk
    /\ status_label = show_error(ExecErrorMsg("FileNotFoundError"))
    /\ PollSawTask

\* the query could not be run or printed no number (QueryUnavailable)
QueryUnavailable(q) == q.raised \/ NonNumeric(q)

C14_TimersStopWithTermination ==
    /\ [][(pc = "running" /\ pc' # "running") =>
            /\ SingleShotQuit \/ CheckTasksExternal \/ CloseEvent
            /\ check_timer' = Stopped
            /\ top_timer' = Stopped]_vars
    /\ [](pc \in {"quitting", "exited"} /\ window # "none" =>
            ~check_timer.active /\ ~top_timer.active)

C14_Witness ==
    /\ pc = "exited"
    /\ last.handler = "single_shot_quit"
    /\ check_timer = Stopped
    /\ top_timer = Stopped
    /\ window = "closed"

\* C15: after startup a query that cannot be run or prints no number counts
\* as no qualifying task: a poll with such a query keeps the window open and
\* both timers running, and a submit whose add exited 0 and whose query
\* failed so shows the warning, clears the input, schedules no close and
\* leaves the window open.
C15_FailedQueryCountsAsNoTask ==
    /\ \A c \in 0..MaxTasks : \A q \in QueryOutcomes(c) :
          QueryUnavailable(q) => ~has_valid_tasks(q)
    /\ [][(/\ last'.handler = "check_tasks_external"
           /\ QueryUnavailable(last'.calls[1].result)
           /\ CheckTasksExternal) =>
            /\ pc' = "running"
            /\ window' = "shown"
            /\ check_timer' = Started(CheckIntervalMs)
            /\ top_timer' = top_timer
            /\ top_timer'.active
            /\ UNCHANGED <<entry, status_label, quitShots, exitCode>>]_vars
    /\ [][(/\ AddExitedZero(last')
           /\ QueryUnavailable(last'.calls[2].result)
           /\ OnSubmit) =>
            /\ status_label' = show_warning(NotUrgentMsg)
            /\ entry' = <<>>
            /\ quitShots' = quitShots
            /\ successAge' = successAge
            /\ pc' = "running"
            /\ window' = "shown"
            /\ UNCHANGED <<check_timer, top_timer, exitCode>>]_vars

C15_Witness ==
    /\ AddExitedZero(last)
    /\ last.calls[2].result.raised
    /\ store > 0
    /\ status_label = show_warning(NotUrgentMsg)
    /\ entry = <<>>
    /\ pc = "running"
    /\ check_timer.active
    /\ top_timer.active

(* ------------------------- fair polling (C16) -------------------------- *)

\* the dialog with a user who neither submits nor closes it: typing and
\* dragging may happen, the store may change, and only the poll can end the
\* event loop
PollNext ==
    \/ Main
    \/ CheckTasksExternal
    \/ EnsureOnTop
    \/ Tick
    \/ AppExit
    \/ StoreChange
    \/ TypeText
    \/ MousePressEvent
    \/ MouseMoveEvent
    \/ MouseReleaseEvent

\* main() runs, the event loop fires a due timer, lets time pass while none
\* is due and returns after a quit; the user and the store are under no
\* obligation
PollSpec ==
    /\ Init
    /\ [][PollNext]_vars
    /\ WF_vars(Main)
    /\ WF_vars(Tick)
    /\ WF_vars(CheckTasksExternal)
    /\ WF_vars(EnsureOnTop)
    /\ WF_vars(AppExit)

\* the poll that ran did not observe a qualifying task
PollMissed ==
    /\ last.handler = "check_tasks_external"
    /\ ~PositiveCount(last.calls[1].result)

\* C16: once the window is shown, if from some point on the store holds a
\* qualifying task for good, the process terminates, unless every poll from
\* then on fails to observe the task (its query fails); no user action is
\* needed, and the first poll that observes the task ends the event loop.
C16_HeldTaskDismissesTheDialog ==
    /\ (<>(window = "shown") /\ <>[](store > 0)) =>
          (<>(pc = "exited") \/ []<>PollMissed)
    /\ [][(last'.handler = "check_tasks_external"
           /\ PositiveCount(last'.calls[1].result)
           /\ CheckTasksExternal) => pc' = "quitting"]_vars

C16_Witness ==
    /\ PollSawTask
    /\ pc = "exited"
    /\ store > 0
    /\ entry = <<>>
    /\ status_label = InitialStatus
    /\ ~dragging
    /\ pos = CentredPos
    /\ offset = <<0, 0>>

\* the handler that ran was on_submit, its add command exited 0 and the
\* query after it reported a positive count
SubmitSucceeded(l) ==
    AddExitedZero(l) /\ PositiveCount(l.calls[2].result)

\* C17: a submit that did not both add with exit status 0 and then count a
\* qualifying task schedules no close and ends nothing: after it the process
\* runs, the window is shown and both timers are active as before; a delayed
\* close is scheduled by a successful submit only.
C17_OnlySuccessSchedulesClose ==
    /\ [][(last'.handler = "on_submit" /\ ~SubmitSucceeded(last') /\ OnSubmit) =>
            /\ quitShots' = quitShots
            /\ successAge' = successAge
            /\ pc' = "running"
            /\ exitCode' = NoExit
            /\ window' = "shown"
            /\ UNCHANGED <<check_timer, top_timer>>
            /\ check_timer'.active
            /\ top_timer'.active]_vars
    /\ [][(CloseDelayMs \in quitShots' /\ CloseDelayMs \notin quitShots) =>
            SubmitSucceeded(last') /\ OnSubmit]_vars

C17_Witness ==
    /\ AddExitedNonZero(last)
    /\ last.calls[1].result.returncode = 2
    /\ quitShots = {}
    /\ successAge = NoSuccess
    /\ pc = "running"
    /\ window = "shown"
    /\ check_timer.active
    /\ top_timer.active

\* C18: from the construction of the window on, as long as no poll has
\* observed a qualifying task and no close event was handled, the 2000 ms
\* poll timer and the 500 ms topmost timer are both active; no submit,
\* whatever its outcome, and no mouse event stops or restarts either timer.
C18_TimersActiveWhileShown ==
    /\ []((window = "shown" /\ ~PollSawTask) =>
            /\ check_timer.active
            /\ check_timer.remaining \in 0..CheckIntervalMs
            /\ top_timer.active
            /\ top_timer.remaining \in 0..TopIntervalMs)
    /\ [][(\/ last'.handler = "on_submit" /\ OnSubmit
           \/ last' = RanOther /\ (\/ MousePressEvent
                                   \/ MouseMoveEvent
                                   \/ MouseReleaseEvent)) =>
            /\ UNCHANGED <<check_timer, top_timer>>
            /\ check_timer'.active
            /\ top_timer'.active]_vars

C18_Witness ==
    /\ window = "shown"
    /\ successAge # NoSuccess
    /\ status_label = show_success
    /\ dragging
    /\ last = RanOther
    /\ check_timer.active
    /\ top_timer.active
    /\ 0 \in quitShots

\* a step of one of the three mouse handlers
MouseStep ==
    last' = RanOther /\ (MousePressEvent \/ MouseMoveEvent \/ MouseReleaseEvent)

\* C19: a left-button press sets dragging (and the anchor offset) and a
\* left-button release clears it; a press or release of another button
\* leaves dragging as it is, and nothing else ever changes it; a mouse move
\* moves the window only while dragging, and nothing else moves it once it
\* is shown; no mouse event changes the input text, the status or a timer,
\* none runs an external command.
C19_DragStateFollowsLeftButton ==
    /\ [][\A b \in Buttons, p \in PressPositions :
            (last' = RanOther /\ mousePressEvent(b, p)) =>
               IF b = "LeftButton"
               THEN dragging' /\ offset' = p
               ELSE dragging' = dragging /\ offset' = offset]_vars
    /\ [][\A b \in Buttons :
            (last' = RanOther /\ mouseReleaseEvent(b)) =>
               IF b = "LeftButton"
               THEN ~dragging'
               ELSE dragging' = dragging]_vars
    /\ [][dragging' # dragging =>
            IF dragging'
            THEN \E p \in PressPositions : mousePressEvent("LeftButton", p)
            ELSE mouseReleaseEvent("LeftButton")]_vars
    /\ [][\A g \in GlobalPositions :
            (last' = RanOther /\ mouseMoveEvent(g)) =>
               pos' = IF dragging THEN PointMinus(g, offset) ELSE pos]_vars
    /\ [][(pos' # pos /\ pc # "start") => (dragging /\ MouseMoveEvent)]_vars
    /\ [][MouseStep =>
            /\ UNCHANGED <<entry, status_label, check_timer, top_timer,
                           quitShots, store, pc, exitCode, window>>
            /\ last'.calls = <<>>]_vars

C19_Witness ==
    /\ dragging
    /\ offset \in PressPositions
    /\ pos # CentredPos
    /\ last = RanOther
    /\ entry # <<>>
    /\ status_label.style = "warning"
    /\ check_timer.active
    /\ top_timer.active

====
